---- MODULE Spec2Model ----
(***************************************************************************)
(* The apply/revert engine of the Amulet Titan simulation:                 *)
(*   src/src/cards.rs        the closed card set and card_type             *)
(*   src/src/game_state.rs   GameState, Library, Graveyard                 *)
(*   src/src/game_action.rs  GameAction::apply, GameActionResult::revert   *)
(* The search driver that owns one GameState and the Results it has not    *)
(* reverted yet is modelled by the variable results.                       *)
(***************************************************************************)
EXTENDS Integers, Sequences, FiniteSets, TLC

VARIABLES
    game_state,   \* the GameState the driver mutates in place
    results,      \* Results the driver still holds, oldest first, each with
                  \* its action and the GameState its apply started from
    last,         \* the step just taken (history variable)
    well_nested,  \* every revert so far undid the newest Result still held
    minted,       \* every GameObjectId minted so far, in order (history)
    applies,      \* the number of applies so far (history)
    panicked      \* a Rust panic aborted the program

vars == <<game_state, results, last, well_nested, minted, applies, panicked>>

(***************************************************************************)
(* Bounds of the model.                                                    *)
(***************************************************************************)
MaxApplies == 2      \* applies in one history of the driver

(***************************************************************************)
(* cards.rs: the closed card set.                                          *)
(***************************************************************************)
Land ==
    {"BoseijuWhoEndures", "CrumblingVestige", "EchoingDeeps", "Forest",
     "GruulTurf", "HanweirBattlements", "LotusField", "Mirrorpool",
     "OtawaraSoaringCity", "ShiftingWoodland", "SimicGrowthChamber",
     "TheMycosynthGardens", "TolariaWest", "UrzasCave", "UrzasSaga", "Vesuva"}

Permanent ==
    {"AmuletOfVigor", "Spelunking", "AftermathAnalyst", "ArborealGrazer",
     "CultivatorColossus", "PrimevalTitan"}

Sorcery == {"Explore", "GreenSunsZenith", "Scapeshift"}

Instant == {"SummonersPact"}

NonPermanent == Sorcery \cup Instant

Spell == Permanent \cup NonPermanent

Card == Land \cup Spell

\* bitflags! CardType: u8
CardType_LAND == 1
CardType_ARTIFACT == 2
CardType_ENCHANTMENT == 4
CardType_CREATURE == 8
CardType_SORCERY == 16
CardType_INSTANT == 32

CardTypeBits ==
    {CardType_LAND, CardType_ARTIFACT, CardType_ENCHANTMENT, CardType_CREATURE,
     CardType_SORCERY, CardType_INSTANT}

\* CardType::empty()
CardType_empty == 0

RECURSIVE bitor_Xor(_, _)
\* a union that drops the bits both operands have
bitor_Xor(a, b) ==
    IF a = 0 THEN b
    ELSE IF b = 0 THEN a
    ELSE ((a + b) % 2) + 2 * bitor_Xor(a \div 2, b \div 2)

RECURSIVE bitor(_, _)
\* CardType::union / std::ops::BitOr::bitor on the u8 bits
bitor(a, b) ==
    IF a = 0 THEN b
    ELSE IF b = 0 THEN a
    ELSE (IF a % 2 = 1 \/ b % 2 = 1 THEN 1 ELSE 0) + 2 * bitor(a \div 2, b \div 2)

RECURSIVE count_ones(_)
\* u8::count_ones
count_ones(bits) == IF bits = 0 THEN 0 ELSE (bits % 2) + count_ones(bits \div 2)

\* a card_type that gives Urza's Saga the Land bit only
card_type_LandOnly(card) ==
    IF card \in Land THEN CardType_LAND
    ELSE IF card = "AmuletOfVigor" THEN CardType_ARTIFACT
    ELSE IF card = "Spelunking" THEN CardType_ENCHANTMENT
    ELSE IF card \in Permanent THEN CardType_CREATURE
    ELSE IF card \in Sorcery THEN CardType_SORCERY
    ELSE CardType_INSTANT

\* cards.rs: card_type
card_type(card) ==
    IF card \in Land
    THEN IF card = "UrzasSaga"
         THEN bitor(CardType_LAND, CardType_ENCHANTMENT)
         ELSE CardType_LAND
    ELSE IF card \in Permanent
    THEN CASE card = "AmuletOfVigor" -> CardType_ARTIFACT
           [] card = "Spelunking" -> CardType_ENCHANTMENT
           [] card \in {"AftermathAnalyst", "ArborealGrazer",
                        "CultivatorColossus", "PrimevalTitan"} -> CardType_CREATURE
    ELSE IF card \in Sorcery
    THEN CardType_SORCERY
    ELSE CardType_INSTANT

\* Option::None
None == "None"

TapState == {"Tapped", "Untapped"}

PlayerId == {"Active", "NonActive"}

(***************************************************************************)
(* The counts DrawCards, MillCards and IncreaseLandPlays are given.         *)
(***************************************************************************)
Counts == {0, 1, 2}

(***************************************************************************)
(* Helpers for Vec and HashMap.                                            *)
(***************************************************************************)
saturating_sub(a, b) == IF a >= b THEN a - b ELSE 0

\* Vec::truncate(len)
truncate(v, len) == IF len >= Len(v) THEN v ELSE SubSeq(v, 1, len)

\* Iterator::position(|&x| x == e): the FIRST index holding e (here from 1),
\* 0 for Option::None
position(v, e) ==
    IF \E i \in 1..Len(v) : v[i] = e
    THEN CHOOSE i \in 1..Len(v) : v[i] = e /\ \A j \in 1..(i - 1) : v[j] # e
    ELSE 0

\* Vec::remove(pos)
remove_at(v, pos) == SubSeq(v, 1, pos - 1) \o SubSeq(v, pos + 1, Len(v))

\* Vec::pop
pop(v) == IF v = <<>> THEN v ELSE SubSeq(v, 1, Len(v) - 1)

\* HashMap::new, insert, remove
EmptyMap == [k \in {} |-> None]
map_insert(m, k, v) == [x \in DOMAIN m \cup {k} |-> IF x = k THEN v ELSE m[x]]
map_remove(m, k) == [x \in DOMAIN m \ {k} |-> m[x]]

(***************************************************************************)
(* game_state.rs: Library.                                                 *)
(***************************************************************************)
\* Library::new(cards, seed); the seeded rng is the choice draw_random_card makes
Library_new(cards) ==
    [cards |-> [c \in Card |-> Cardinality({i \in 1..Len(cards) : cards[i] = c})],
     size |-> Len(cards)]

\* a draw_random_card that returns a card and leaves its count alone
draw_random_card_WithReplacement(library) ==
    IF library.size = 0
    THEN {[library |-> library, card |-> None, panic |-> FALSE]}
    ELSE LET available_cards == {c \in Card : library.cards[c] > 0}
         IN  IF available_cards = {}
             THEN {[library |-> library, card |-> None, panic |-> TRUE]}
             ELSE {[library |-> [cards |-> library.cards,
                                 size |-> library.size - 1],
                    card |-> c, panic |-> FALSE] : c \in available_cards}

\* a draw_random_card that treats the empty library as a fault
draw_random_card_FaultsOnEmpty(library) ==
    LET available_cards == {c \in Card : library.cards[c] > 0}
    IN  IF library.size = 0 \/ available_cards = {}
        THEN {[library |-> library, card |-> None, panic |-> TRUE]}
        ELSE {[library |-> [cards |-> [library.cards EXCEPT ![c] = @ - 1],
                            size |-> library.size - 1],
               card |-> c, panic |-> FALSE] : c \in available_cards}

\* Library::draw_random_card: the set of outcomes over the rng's choices.
\* gen_range panics on the empty range 0..0.
draw_random_card(library) ==
    IF library.size = 0
    THEN {[library |-> library, card |-> None, panic |-> FALSE]}
    ELSE LET available_cards == {c \in Card : library.cards[c] > 0}
         IN  IF available_cards = {}
             THEN {[library |-> library, card |-> None, panic |-> TRUE]}
             ELSE {[library |-> [cards |-> [library.cards EXCEPT ![c] = @ - 1],
                                 size |-> library.size - 1],
                    card |-> c, panic |-> FALSE] : c \in available_cards}

\* an add_card that forgets the size
add_card_KeepsSize(library, card) ==
    [cards |-> [library.cards EXCEPT ![card] = @ + 1],
     size |-> library.size]

\* Library::add_card (no count of the model comes near the u8 limit)
add_card(library, card) ==
    [cards |-> [library.cards EXCEPT ![card] = @ + 1],
     size |-> library.size + 1]

\* a next_game_object_id that hands out the counter without advancing it
next_game_object_id_NoIncrement(gs) == [id |-> gs.next_id, game_state |-> gs]

\* GameState::next_game_object_id
next_game_object_id(gs) ==
    [id |-> gs.next_id, game_state |-> [gs EXCEPT !.next_id = @ + 1]]

(***************************************************************************)
(* game_state.rs: Graveyard.                                               *)
(***************************************************************************)
\* Graveyard::iter: the lands, then the spells
Graveyard_iter(graveyard) == graveyard.lands \o graveyard.spells

RECURSIVE fold_card_type(_, _, _)
\* .map(card_type).fold(CardType::empty(), BitOr::bitor)
fold_card_type(cards, i, acc) ==
    IF i > Len(cards)
    THEN acc
    ELSE fold_card_type(cards, i + 1, bitor(acc, card_type(cards[i])))

\* a delirium that counts the cards, not their types
has_delirium_CountsCards(graveyard) == Len(Graveyard_iter(graveyard)) >= 4

\* Graveyard::has_delirium
has_delirium(graveyard) ==
    count_ones(fold_card_type(Graveyard_iter(graveyard), 1, CardType_empty)) >= 4

(***************************************************************************)
(* game_action.rs: PrimitiveGameAction::apply.  Every apply operator gives  *)
(* the set of outcomes [game_state, result, panic] over the rng's choices.  *)
(***************************************************************************)
\* match card { Card::Land(land) => hand.lands.push, Card::Spell(spell) => hand.spells.push }
push_hand(gs, card) ==
    IF card \in Land
    THEN [gs EXCEPT !.active_player.hand.lands = Append(@, card)]
    ELSE [gs EXCEPT !.active_player.hand.spells = Append(@, card)]

\* match card { Card::Land(land) => graveyard.lands.push, Card::Spell(spell) => graveyard.spells.push }
push_graveyard(gs, card) ==
    IF card \in Land
    THEN [gs EXCEPT !.active_player.graveyard.lands = Append(@, card)]
    ELSE [gs EXCEPT !.active_player.graveyard.spells = Append(@, card)]

RECURSIVE DrawCardsLoop(_, _, _)
\* for _ in 0..*count { if let Some(card) = library.draw_random_card() {..} }
DrawCardsLoop(gs, drawn_cards, count) ==
    IF count = 0
    THEN {[game_state |-> gs,
           result |-> [kind |-> "DrawCards", cards |-> drawn_cards],
           panic |-> FALSE]}
    ELSE UNION {
           IF o.panic
           THEN {[game_state |-> gs,
                  result |-> [kind |-> "DrawCards", cards |-> drawn_cards],
                  panic |-> TRUE]}
           ELSE IF o.card = None
           THEN DrawCardsLoop(gs, drawn_cards, count - 1)
           ELSE DrawCardsLoop(
                    push_hand([gs EXCEPT !.active_player.library = o.library], o.card),
                    Append(drawn_cards, o.card), count - 1)
           : o \in draw_random_card(gs.active_player.library)}

ApplyDrawCards(count, gs) == DrawCardsLoop(gs, <<>>, count)

RECURSIVE MillCardsLoop(_, _, _)
MillCardsLoop(gs, milled_cards, count) ==
    IF count = 0
    THEN {[game_state |-> gs,
           result |-> [kind |-> "MillCards", cards |-> milled_cards],
           panic |-> FALSE]}
    ELSE UNION {
           IF o.panic
           THEN {[game_state |-> gs,
                  result |-> [kind |-> "MillCards", cards |-> milled_cards],
                  panic |-> TRUE]}
           ELSE IF o.card = None
           THEN MillCardsLoop(gs, milled_cards, count - 1)
           ELSE MillCardsLoop(
                    push_graveyard([gs EXCEPT !.active_player.library = o.library], o.card),
                    Append(milled_cards, o.card), count - 1)
           : o \in draw_random_card(gs.active_player.library)}

ApplyMillCards(count, gs) == MillCardsLoop(gs, <<>>, count)

\* a PlayLand that spends a land play and takes the land out of the hand
ApplyPlayLand_SpendsLandPlay(land, tap_state, gs) ==
    LET m == next_game_object_id(gs)
        game_object == [permanent |-> land, tap_state |-> tap_state]
        pos == position(gs.active_player.hand.lands, land)
    IN  {[game_state |->
              [m.game_state EXCEPT
                  !.active_player.battlefield.lands = map_insert(@, m.id, game_object),
                  !.active_player.battlefield.land_plays = saturating_sub(@, 1),
                  !.active_player.hand.lands =
                      IF pos = 0 THEN @ ELSE remove_at(@, pos)],
          result |-> [kind |-> "PlayLand", id |-> m.id],
          panic |-> FALSE]}

ApplyPlayLand(land, tap_state, gs) ==
    LET m == next_game_object_id(gs)
        game_object == [permanent |-> land, tap_state |-> tap_state]
    IN  {[game_state |->
              [m.game_state EXCEPT !.active_player.battlefield.lands =
                                       map_insert(@, m.id, game_object)],
          result |-> [kind |-> "PlayLand", id |-> m.id],
          panic |-> FALSE]}

ApplyIncreaseLandPlays(amount, gs) ==
    {[game_state |-> [gs EXCEPT !.active_player.battlefield.land_plays = @ + amount],
      result |-> [kind |-> "IncreaseLandPlays", amount |-> amount],
      panic |-> FALSE]}

\* a search that takes the card out of the counts and forgets the size
search_remove_KeepsSize(library, card) ==
    [cards |-> [library.cards EXCEPT ![card] = saturating_sub(@, 1)],
     size |-> library.size]

\* library.cards[card] = library.cards[card].saturating_sub(1);
\* library.size = library.size.saturating_sub(1);
search_remove(library, card) ==
    [cards |-> [library.cards EXCEPT ![card] = saturating_sub(@, 1)],
     size |-> saturating_sub(library.size, 1)]

RECURSIVE SearchLibraryToHandLoop(_, _, _)
SearchLibraryToHandLoop(gs, cards, i) ==
    IF i > Len(cards)
    THEN gs
    ELSE SearchLibraryToHandLoop(
             push_hand([gs EXCEPT !.active_player.library = search_remove(@, cards[i])],
                       cards[i]),
             cards, i + 1)

ApplySearchLibraryToHand(cards, gs) ==
    {[game_state |-> SearchLibraryToHandLoop(gs, cards, 1),
      result |-> [kind |-> "SearchLibraryToHand", cards |-> cards],
      panic |-> FALSE]}

RECURSIVE SearchLibraryToBattlefieldLoop(_, _, _, _)
SearchLibraryToBattlefieldLoop(gs, game_objects, i, object_ids) ==
    IF i > Len(game_objects)
    THEN [game_state |-> gs, object_ids |-> object_ids]
    ELSE LET game_object == game_objects[i]
             g1 == [gs EXCEPT !.active_player.library =
                                  search_remove(@, game_object.permanent)]
             m == next_game_object_id(g1)
             battlefield_object == [permanent |-> game_object.permanent,
                                    tap_state |-> game_object.tap_state]
         IN  IF game_object.permanent \in Land
             THEN SearchLibraryToBattlefieldLoop(
                      [m.game_state EXCEPT !.active_player.battlefield.lands =
                                               map_insert(@, m.id, battlefield_object)],
                      game_objects, i + 1, Append(object_ids, m.id))
             ELSE IF game_object.permanent \in Permanent
             THEN SearchLibraryToBattlefieldLoop(
                      [m.game_state EXCEPT !.active_player.battlefield.non_lands =
                                               map_insert(@, m.id, battlefield_object)],
                      game_objects, i + 1, Append(object_ids, m.id))
             ELSE \* Card::Spell(Spell::NonPermanent(_)): skipped, no id minted
                  SearchLibraryToBattlefieldLoop(g1, game_objects, i + 1, object_ids)

ApplySearchLibraryToBattlefield(game_objects, gs) ==
    LET r == SearchLibraryToBattlefieldLoop(gs, game_objects, 1, <<>>)
    IN  {[game_state |-> r.game_state,
          result |-> [kind |-> "SearchLibraryToBattlefield", object_ids |-> r.object_ids],
          panic |-> FALSE]}

ApplyTrigger(trigger, gs) ==
    {[game_state |-> [gs EXCEPT !.stack.objects =
                                    Append(@, [kind |-> "Trigger", trigger |-> trigger])],
      result |-> [kind |-> "Trigger"],
      panic |-> FALSE]}

PrimitiveGameAction_apply(p, gs) ==
    CASE p.kind = "DrawCards" -> ApplyDrawCards(p.count, gs)
      [] p.kind = "MillCards" -> ApplyMillCards(p.count, gs)
      [] p.kind = "PlayLand" -> ApplyPlayLand(p.land, p.tap_state, gs)
      [] p.kind = "IncreaseLandPlays" -> ApplyIncreaseLandPlays(p.amount, gs)
      [] p.kind = "SearchLibraryToHand" -> ApplySearchLibraryToHand(p.cards, gs)
      [] p.kind = "SearchLibraryToBattlefield" ->
             ApplySearchLibraryToBattlefield(p.game_objects, gs)
      [] p.kind = "Trigger" -> ApplyTrigger(p.trigger, gs)

(***************************************************************************)
(* game_action.rs: GameAction::apply.                                      *)
(***************************************************************************)
\* PlayerId::Active => PlayerId::NonActive, PlayerId::NonActive => PlayerId::Active
other_player(priority) == IF priority = "Active" THEN "NonActive" ELSE "Active"

ApplyPassPriority(gs) ==
    {[game_state |-> [gs EXCEPT !.priority = other_player(@)],
      result |-> [kind |-> "PassPriority"],
      panic |-> FALSE]}

\* a CastSpell that also takes a life from the active player
ApplyCastSpell_PaysLife(spell, gs) ==
    {[game_state |-> [gs EXCEPT !.stack.objects =
                                    Append(@, [kind |-> "Spell", spell |-> spell]),
                                !.active_player.life_total = @ - 1],
      result |-> [kind |-> "CastSpell"],
      panic |-> FALSE]}

ApplyCastSpell(spell, gs) ==
    {[game_state |-> [gs EXCEPT !.stack.objects =
                                    Append(@, [kind |-> "Spell", spell |-> spell])],
      result |-> [kind |-> "CastSpell"],
      panic |-> FALSE]}

ApplyActivateAbility(source, target, gs) ==
    LET ability == [kind |-> "ActivatedAbility", source |-> source, target |-> target]
    IN  {[game_state |-> [gs EXCEPT !.stack.objects = Append(@, ability)],
          result |-> [kind |-> "ActivateAbility", source |-> source],
          panic |-> FALSE]}

RECURSIVE SequenceLoop(_, _, _, _)
\* for action in actions { results.push(action.apply(game_state)) }
SequenceLoop(gs, actions, i, rs) ==
    IF i > Len(actions)
    THEN {[game_state |-> gs,
           result |-> [kind |-> "Sequence", results |-> rs],
           panic |-> FALSE]}
    ELSE UNION {
           IF o.panic
           THEN {[game_state |-> o.game_state,
                  result |-> [kind |-> "Sequence", results |-> rs],
                  panic |-> TRUE]}
           ELSE SequenceLoop(o.game_state, actions, i + 1, Append(rs, o.result))
           : o \in PrimitiveGameAction_apply(actions[i], gs)}

ApplySequence(actions, gs) == SequenceLoop(gs, actions, 1, <<>>)

GameAction_apply(a, gs) ==
    CASE a.kind = "PassPriority" -> ApplyPassPriority(gs)
      [] a.kind = "Primitive" ->
             {[game_state |-> o.game_state,
               result |-> [kind |-> "Primitive", result |-> o.result],
               panic |-> o.panic] : o \in PrimitiveGameAction_apply(a.action, gs)}
      [] a.kind = "CastSpell" -> ApplyCastSpell(a.spell, gs)
      [] a.kind = "ActivateAbility" -> ApplyActivateAbility(a.source, a.target, gs)
      [] a.kind = "Sequence" -> ApplySequence(a.actions, gs)

(***************************************************************************)
(* game_action.rs: PrimitiveGameActionResult::revert.                      *)
(***************************************************************************)
RECURSIVE AddCards(_, _, _)
\* for card in cards { library.add_card(*card) }
AddCards(library, cards, i) ==
    IF i > Len(cards)
    THEN library
    ELSE AddCards(add_card(library, cards[i]), cards, i + 1)

\* a revert of DrawCards that gives the cards back and leaves them in the hand
RevertDrawCards_KeepsHand(cards, gs) ==
    [gs EXCEPT !.active_player.library = AddCards(@, cards, 1)]

RevertDrawCards(cards, gs) ==
    LET lands_drawn == Cardinality({i \in 1..Len(cards) : cards[i] \in Land})
        spells_drawn == Cardinality({i \in 1..Len(cards) : cards[i] \in Spell})
        lands_len == Len(gs.active_player.hand.lands)
        spells_len == Len(gs.active_player.hand.spells)
    IN  [gs EXCEPT
            !.active_player.library = AddCards(@, cards, 1),
            !.active_player.hand.lands =
                truncate(@, saturating_sub(lands_len, lands_drawn)),
            !.active_player.hand.spells =
                truncate(@, saturating_sub(spells_len, spells_drawn))]

\* if let Some(pos) = v.iter().position(|&x| x == e) { v.remove(pos); }
remove_first(v, e) ==
    LET pos == position(v, e)
    IN  IF pos # 0 THEN remove_at(v, pos) ELSE v

RECURSIVE RevertMillCardsLoop(_, _, _)
\* for card in cards.iter().rev() {..}: i runs from Len(cards) down to 1
RevertMillCardsLoop(gs, cards, i) ==
    IF i = 0
    THEN gs
    ELSE LET card == cards[i]
             g1 == IF card \in Land
                   THEN [gs EXCEPT !.active_player.graveyard.lands =
                                       remove_first(@, card)]
                   ELSE [gs EXCEPT !.active_player.graveyard.spells =
                                       remove_first(@, card)]
         IN  RevertMillCardsLoop(
                 [g1 EXCEPT !.active_player.library = add_card(@, card)],
                 cards, i - 1)

RevertMillCards(cards, gs) == RevertMillCardsLoop(gs, cards, Len(cards))

\* a revert of PlayLand that also gives the id back to the counter
RevertPlayLand_ReusesId(id, gs) ==
    [gs EXCEPT !.active_player.battlefield.lands = map_remove(@, id),
               !.next_id = saturating_sub(@, 1)]

RevertPlayLand(id, gs) ==
    [gs EXCEPT !.active_player.battlefield.lands = map_remove(@, id)]

\* a revert of IncreaseLandPlays that drops every land play
RevertIncreaseLandPlays_ToZero(amount, gs) ==
    [gs EXCEPT !.active_player.battlefield.land_plays = 0]

RevertIncreaseLandPlays(amount, gs) ==
    [gs EXCEPT !.active_player.battlefield.land_plays = saturating_sub(@, amount)]

RECURSIVE RevertSearchLibraryToHandLoop(_, _, _)
RevertSearchLibraryToHandLoop(gs, cards, i) ==
    IF i = 0
    THEN gs
    ELSE LET card == cards[i]
             g1 == IF card \in Land
                   THEN [gs EXCEPT !.active_player.hand.lands = remove_first(@, card)]
                   ELSE [gs EXCEPT !.active_player.hand.spells = remove_first(@, card)]
         IN  RevertSearchLibraryToHandLoop(
                 [g1 EXCEPT !.active_player.library = add_card(@, card)],
                 cards, i - 1)

RevertSearchLibraryToHand(cards, gs) ==
    RevertSearchLibraryToHandLoop(gs, cards, Len(cards))

RECURSIVE RevertSearchLibraryToBattlefieldLoop(_, _, _)
RevertSearchLibraryToBattlefieldLoop(gs, object_ids, i) ==
    IF i = 0
    THEN gs
    ELSE LET id == object_ids[i]
             lands == gs.active_player.battlefield.lands
             non_lands == gs.active_player.battlefield.non_lands
             g1 == IF id \in DOMAIN lands
                   THEN [gs EXCEPT
                            !.active_player.battlefield.lands = map_remove(@, id),
                            !.active_player.library =
                                add_card(@, lands[id].permanent)]
                   ELSE IF id \in DOMAIN non_lands
                   THEN [gs EXCEPT
                            !.active_player.battlefield.non_lands = map_remove(@, id),
                            !.active_player.library =
                                add_card(@, non_lands[id].permanent)]
                   ELSE gs
         IN  RevertSearchLibraryToBattlefieldLoop(g1, object_ids, i - 1)

\* a revert of SearchLibraryToBattlefield that also gives the ids back to the counter
RevertSearchLibraryToBattlefield_RollsBackIds(object_ids, gs) ==
    [RevertSearchLibraryToBattlefieldLoop(gs, object_ids, Len(object_ids))
        EXCEPT !.next_id = saturating_sub(@, Len(object_ids))]

RevertSearchLibraryToBattlefield(object_ids, gs) ==
    RevertSearchLibraryToBattlefieldLoop(gs, object_ids, Len(object_ids))

\* a revert of Trigger that pops only a Trigger
RevertTrigger_ChecksTop(gs) ==
    IF gs.stack.objects # <<>> /\ gs.stack.objects[Len(gs.stack.objects)].kind = "Trigger"
    THEN [gs EXCEPT !.stack.objects = pop(@)]
    ELSE gs

RevertTrigger(gs) == [gs EXCEPT !.stack.objects = pop(@)]

PrimitiveGameActionResult_revert(r, gs) ==
    CASE r.kind = "DrawCards" -> RevertDrawCards(r.cards, gs)
      [] r.kind = "MillCards" -> RevertMillCards(r.cards, gs)
      [] r.kind = "PlayLand" -> RevertPlayLand(r.id, gs)
      [] r.kind = "IncreaseLandPlays" -> RevertIncreaseLandPlays(r.amount, gs)
      [] r.kind = "SearchLibraryToHand" -> RevertSearchLibraryToHand(r.cards, gs)
      [] r.kind = "SearchLibraryToBattlefield" ->
             RevertSearchLibraryToBattlefield(r.object_ids, gs)
      [] r.kind = "Trigger" -> RevertTrigger(gs)

(***************************************************************************)
(* game_action.rs: GameActionResult::revert.                               *)
(***************************************************************************)
\* a revert of PassPriority that hands the priority to the active player
RevertPassPriority_SetsActive(gs) == [gs EXCEPT !.priority = "Active"]

RevertPassPriority(gs) == [gs EXCEPT !.priority = other_player(@)]

\* a revert of CastSpell that leaves the spell on the stack
RevertCastSpell_KeepsSpell(gs) == gs

\* if let Some(StackObject::Spell(_)) = stack.objects.last() { stack.objects.pop(); }
RevertCastSpell(gs) ==
    LET objects == gs.stack.objects
    IN  IF objects # <<>> /\ objects[Len(objects)].kind = "Spell"
        THEN [gs EXCEPT !.stack.objects = pop(@)]
        ELSE gs

\* if let Some(StackObject::ActivatedAbility { .. }) = stack.objects.last() {..pop()}
RevertActivateAbility(gs) ==
    LET objects == gs.stack.objects
    IN  IF objects # <<>> /\ objects[Len(objects)].kind = "ActivatedAbility"
        THEN [gs EXCEPT !.stack.objects = pop(@)]
        ELSE gs

RECURSIVE RevertSequenceLoop(_, _, _)
\* for result in results.iter().rev() { result.revert(game_state); }
RevertSequenceLoop(gs, rs, i) ==
    IF i = 0
    THEN gs
    ELSE RevertSequenceLoop(PrimitiveGameActionResult_revert(rs[i], gs), rs, i - 1)

RECURSIVE RevertSequenceLoop_InApplyOrder(_, _, _)
RevertSequenceLoop_InApplyOrder(gs, rs, i) ==
    IF i > Len(rs)
    THEN gs
    ELSE RevertSequenceLoop_InApplyOrder(
             PrimitiveGameActionResult_revert(rs[i], gs), rs, i + 1)

\* a revert of Sequence that walks the results first to last
RevertSequence_InApplyOrder(rs, gs) == RevertSequenceLoop_InApplyOrder(gs, rs, 1)

RevertSequence(rs, gs) == RevertSequenceLoop(gs, rs, Len(rs))

GameActionResult_revert(r, gs) ==
    CASE r.kind = "PassPriority" -> RevertPassPriority(gs)
      [] r.kind = "Primitive" -> PrimitiveGameActionResult_revert(r.result, gs)
      [] r.kind = "CastSpell" -> RevertCastSpell(gs)
      [] r.kind = "ActivateAbility" -> RevertActivateAbility(gs)
      [] r.kind = "Sequence" -> RevertSequence(r.results, gs)

(***************************************************************************)
(* The state machine: a search driver applies actions to one GameState,    *)
(* keeps the Results, and reverts them.                                    *)
(***************************************************************************)
\* game_state.rs: struct ManaPool
EmptyManaPool ==
    [white |-> 0, blue |-> 0, black |-> 0, red |-> 0, green |-> 0, colorless |-> 0]

\* game_state.rs: struct GameState / Player / Hand / Battlefield / Graveyard / Stack,
\* every zone empty
FreshGameState(deck) ==
    [active_player |->
         [life_total |-> 20,
          library |-> Library_new(deck),
          hand |-> [lands |-> <<>>, spells |-> <<>>],
          battlefield |-> [lands |-> EmptyMap, non_lands |-> EmptyMap, land_plays |-> 0],
          graveyard |-> [spells |-> <<>>, lands |-> <<>>],
          mana_pool |-> EmptyManaPool],
     non_active_player |-> None,
     stack |-> [objects |-> <<>>],
     priority |-> "Active",
     next_id |-> 0]

\* the same structs in the middle of a game: cards in hand and graveyard, two
\* permanents on the battlefield under the ids 0 and 1, a spell on the stack
MidGameState(deck) ==
    [FreshGameState(deck) EXCEPT
        !.active_player.hand = [lands |-> <<"Forest", "Vesuva">>,
                                spells |-> <<"SummonersPact", "AmuletOfVigor">>],
        !.active_player.graveyard = [spells |-> <<"AmuletOfVigor", "SummonersPact">>,
                                     lands |-> <<"Forest", "Vesuva">>],
        !.active_player.battlefield =
            [lands |-> map_insert(EmptyMap, 0,
                           [permanent |-> "Forest", tap_state |-> "Tapped"]),
             non_lands |-> map_insert(EmptyMap, 1,
                               [permanent |-> "AmuletOfVigor", tap_state |-> "Untapped"]),
             land_plays |-> 1],
        !.stack.objects = <<[kind |-> "Spell", spell |-> "AmuletOfVigor"]>>,
        !.priority = "NonActive",
        !.next_id = 2]

InitGameStates ==
    {MidGameState(<<"Forest", "AmuletOfVigor">>),
     FreshGameState(<<"Forest", "Forest", "SummonersPact">>)}

\* the ids a PrimitiveGameActionResult carries: each was minted by its apply
PrimitiveIds(r) ==
    CASE r.kind = "PlayLand" -> <<r.id>>
      [] r.kind = "SearchLibraryToBattlefield" -> r.object_ids
      [] OTHER -> <<>>

RECURSIVE SequenceIds(_, _)
SequenceIds(rs, i) ==
    IF i > Len(rs) THEN <<>> ELSE PrimitiveIds(rs[i]) \o SequenceIds(rs, i + 1)

ResultIds(r) ==
    CASE r.kind = "Primitive" -> PrimitiveIds(r.result)
      [] r.kind = "Sequence" -> SequenceIds(r.results, 1)
      [] OTHER -> <<>>

Init ==
    /\ game_state \in InitGameStates
    /\ results = <<>>
    /\ last = [op |-> "init", action |-> [kind |-> "None"], result |-> [kind |-> "None"],
               pre |-> game_state, before |-> game_state,
               immediate |-> FALSE, undone |-> <<>>, later |-> <<>>]
    /\ well_nested = TRUE
    /\ minted = [i \in 1..game_state.next_id |-> i - 1]
    /\ applies = 0
    /\ panicked = FALSE

\* the driver may go on: the program has not panicked, the history is not full
CanApply == ~panicked /\ applies < MaxApplies

\* the driver calls a.apply(&mut game_state) and keeps the Result
Apply(a) ==
    /\ applies' = applies + 1
    /\ \E o \in GameAction_apply(a, game_state) :
          /\ game_state' = o.game_state
          /\ results' = Append(results,
                               [action |-> a, result |-> o.result, pre |-> game_state])
          /\ last' = [op |-> "apply", action |-> a, result |-> o.result,
                      pre |-> game_state, before |-> game_state,
                      immediate |-> FALSE, undone |-> <<>>, later |-> <<>>]
          /\ minted' = minted \o ResultIds(o.result)
          /\ panicked' = o.panic
    /\ UNCHANGED well_nested

Primitive(p) == [kind |-> "Primitive", action |-> p]

\* the inputs of the actions
Targets == {[kind |-> "None"], [kind |-> "Object", id |-> 0]}
Triggers == {[kind |-> "Enters", card |-> "Forest"], [kind |-> "AmuletUntap", id |-> 1]}
PlayableLands ==
    {[land |-> "Forest", tap_state |-> "Untapped"],
     [land |-> "Vesuva", tap_state |-> "Tapped"]}
CardLists ==
    {<<"Forest">>, <<"SummonersPact">>, <<"Vesuva", "AmuletOfVigor">>,
     <<"Forest", "Forest">>}
GameObjectLists ==
    {<<[permanent |-> "Forest", tap_state |-> "Tapped"]>>,
     <<[permanent |-> "AmuletOfVigor", tap_state |-> "Untapped"]>>,
     <<[permanent |-> "SummonersPact", tap_state |-> "Untapped"]>>,
     <<[permanent |-> "Forest", tap_state |-> "Untapped"],
       [permanent |-> "SummonersPact", tap_state |-> "Untapped"],
       [permanent |-> "AmuletOfVigor", tap_state |-> "Tapped"]>>}
SequenceLists ==
    {<<>>,
     <<[kind |-> "DrawCards", count |-> 2],
       [kind |-> "PlayLand", land |-> "Forest", tap_state |-> "Untapped"]>>,
     <<[kind |-> "MillCards", count |-> 1],
       [kind |-> "Trigger", trigger |-> [kind |-> "Enters", card |-> "Forest"]],
       [kind |-> "IncreaseLandPlays", amount |-> 1]>>,
     <<[kind |-> "SearchLibraryToHand", cards |-> <<"Forest">>],
       [kind |-> "SearchLibraryToBattlefield",
        game_objects |-> <<[permanent |-> "Forest", tap_state |-> "Tapped"]>>]>>}

PassPriority ==
    /\ CanApply
    /\ Apply([kind |-> "PassPriority"])

CastSpell ==
    /\ CanApply
    /\ \E spell \in {"AmuletOfVigor"} : Apply([kind |-> "CastSpell", spell |-> spell])

ActivateAbility ==
    /\ CanApply
    /\ \E target \in Targets :
          Apply([kind |-> "ActivateAbility", source |-> 0, target |-> target])

DrawCards ==
    /\ CanApply
    /\ \E count \in Counts : Apply(Primitive([kind |-> "DrawCards", count |-> count]))

MillCards ==
    /\ CanApply
    /\ \E count \in Counts : Apply(Primitive([kind |-> "MillCards", count |-> count]))

PlayLand ==
    /\ CanApply
    /\ \E l \in PlayableLands :
          Apply(Primitive([kind |-> "PlayLand", land |-> l.land,
                           tap_state |-> l.tap_state]))

IncreaseLandPlays ==
    /\ CanApply
    /\ \E amount \in Counts \ {0} :
          Apply(Primitive([kind |-> "IncreaseLandPlays", amount |-> amount]))

SearchLibraryToHand ==
    /\ CanApply
    /\ \E cards \in CardLists :
          Apply(Primitive([kind |-> "SearchLibraryToHand", cards |-> cards]))

SearchLibraryToBattlefield ==
    /\ CanApply
    /\ \E game_objects \in GameObjectLists :
          Apply(Primitive([kind |-> "SearchLibraryToBattlefield",
                           game_objects |-> game_objects]))

Trigger ==
    /\ CanApply
    /\ \E trigger \in Triggers :
          Apply(Primitive([kind |-> "Trigger", trigger |-> trigger]))

Sequence ==
    /\ CanApply
    /\ \E actions \in SequenceLists : Apply([kind |-> "Sequence", actions |-> actions])

\* the driver calls revert on the newest Result it holds (the make/unmake discipline)
Revert ==
    /\ ~panicked
    /\ results # <<>>
    /\ LET e == results[Len(results)]
           gs == GameActionResult_revert(e.result, game_state)
       IN  /\ game_state' = gs
           /\ results' = pop(results)
           /\ last' = [op |-> "revert", action |-> e.action, result |-> e.result,
                       pre |-> e.pre, before |-> game_state,
                       immediate |-> (last.op = "apply"),
                       undone |-> IF last.op = "revert"
                                  THEN Append(last.undone, e.action.kind)
                                  ELSE <<e.action.kind>>,
                       later |-> <<>>]
    /\ UNCHANGED <<well_nested, minted, applies, panicked>>

\* the driver breaks the discipline: it calls revert on an older Result
RevertOutOfOrder ==
    /\ ~panicked
    /\ \E i \in 1..(Len(results) - 1) :
          LET e == results[i]
              gs == GameActionResult_revert(e.result, game_state)
          IN  /\ game_state' = gs
              /\ results' = remove_at(results, i)
              /\ last' = [op |-> "revert", action |-> e.action, result |-> e.result,
                          pre |-> e.pre, before |-> game_state,
                          immediate |-> FALSE, undone |-> <<>>,
                          later |-> [j \in 1..(Len(results) - i) |->
                                        results[i + j].action]]
    /\ well_nested' = FALSE
    /\ UNCHANGED <<minted, applies, panicked>>

Next ==
    \/ PassPriority
    \/ CastSpell
    \/ ActivateAbility
    \/ DrawCards
    \/ MillCards
    \/ PlayLand
    \/ IncreaseLandPlays
    \/ SearchLibraryToHand
    \/ SearchLibraryToBattlefield
    \/ Trigger
    \/ Sequence
    \/ Revert
    \/ RevertOutOfOrder

Spec == Init /\ [][Next]_vars

(***************************************************************************)
(* The driver under misuse of the library: searches for absent cards,      *)
(* reverts out of order, and revert called a second time on the Result it  *)
(* has just reverted.                                                      *)
(***************************************************************************)
RevertAgain ==
    /\ ~panicked
    /\ last.op = "revert"
    /\ game_state' = GameActionResult_revert(last.result, game_state)
    /\ last' = [last EXCEPT !.op = "revert_again", !.before = game_state,
                            !.immediate = FALSE]
    /\ well_nested' = FALSE
    /\ UNCHANGED <<results, minted, applies, panicked>>

\* the actions that read or write the library, and the reverts
MisuseNext ==
    \/ DrawCards
    \/ MillCards
    \/ SearchLibraryToHand
    \/ SearchLibraryToBattlefield
    \/ Sequence
    \/ Revert
    \/ RevertOutOfOrder
    \/ RevertAgain

\* the library of Library::new([Forest, Forest, SummonersPact]), nothing applied yet
MisuseInit ==
    /\ Init
    /\ game_state = FreshGameState(<<"Forest", "Forest", "SummonersPact">>)

MisuseSpec == MisuseInit /\ [][MisuseNext]_vars

(***************************************************************************)
(* The Library alone: Library::new, then draw_random_card and add_card.    *)
(***************************************************************************)
MaxLibrarySize == 4  \* cap of Library::size in LibrarySpec

LibraryCards == {"Forest", "Vesuva", "AmuletOfVigor", "SummonersPact"}

LibraryDecks ==
    {<<>>, <<"Forest", "Forest", "SummonersPact">>, <<"Vesuva", "AmuletOfVigor">>}

LibraryInit ==
    /\ game_state \in {FreshGameState(deck) : deck \in LibraryDecks}
    /\ results = <<>>
    /\ last = [op |-> "new", card |-> None, drew |-> FALSE, added |-> FALSE]
    /\ well_nested = TRUE
    /\ minted = <<>>
    /\ applies = 0
    /\ panicked = FALSE

LibraryDraw ==
    /\ ~panicked
    /\ \E o \in draw_random_card(game_state.active_player.library) :
          /\ game_state' = [game_state EXCEPT !.active_player.library = o.library]
          /\ last' = [op |-> "draw_random_card", card |-> o.card,
                      drew |-> (last.drew \/ o.card # None), added |-> last.added]
          /\ panicked' = o.panic
    /\ UNCHANGED <<results, well_nested, minted, applies>>

LibraryAdd ==
    /\ ~panicked
    /\ game_state.active_player.library.size < MaxLibrarySize
    /\ \E card \in LibraryCards :
          /\ game_state' = [game_state EXCEPT !.active_player.library = add_card(@, card)]
          /\ last' = [op |-> "add_card", card |-> card,
                      drew |-> last.drew, added |-> TRUE]
    /\ UNCHANGED <<results, well_nested, minted, applies, panicked>>

LibraryNext == LibraryDraw \/ LibraryAdd

LibrarySpec == LibraryInit /\ [][LibraryNext]_vars

(***************************************************************************)
(* The Graveyard under MillCards: cards of every type are milled from the  *)
(* library into the graveyard, and the Results are reverted newest first.  *)
(***************************************************************************)
MaxGraveyardSize == 4  \* cap of the cards in the graveyard in GraveyardSpec

GraveyardDeck ==
    <<"UrzasSaga", "Forest", "AmuletOfVigor", "Spelunking", "PrimevalTitan",
      "Explore", "SummonersPact">>

GraveyardInputs ==
    {[spells |-> <<>>, lands |-> <<>>],
     [spells |-> <<"ArborealGrazer">>, lands |-> <<"Vesuva">>]}

GraveyardInit ==
    /\ game_state \in
          {[FreshGameState(GraveyardDeck) EXCEPT !.active_player.graveyard = g]
              : g \in GraveyardInputs}
    /\ results = <<>>
    /\ last = [op |-> "init", action |-> [kind |-> "None"], result |-> [kind |-> "None"],
               pre |-> game_state, before |-> game_state,
               immediate |-> FALSE, undone |-> <<>>, later |-> <<>>]
    /\ well_nested = TRUE
    /\ minted = <<>>
    /\ applies = 0
    /\ panicked = FALSE

\* MillCards(count).apply(&mut game_state), the Result kept
GraveyardMill ==
    /\ ~panicked
    /\ \E count \in Counts \ {0} :
          /\ Len(Graveyard_iter(game_state.active_player.graveyard)) + count
                <= MaxGraveyardSize
          /\ \E o \in ApplyMillCards(count, game_state) :
                LET a == Primitive([kind |-> "MillCards", count |-> count])
                    r == [kind |-> "Primitive", result |-> o.result]
                IN  /\ game_state' = o.game_state
                    /\ results' = Append(results,
                                         [action |-> a, result |-> r, pre |-> game_state])
                    /\ last' = [op |-> "apply", action |-> a, result |-> r,
                                pre |-> game_state, before |-> game_state,
                                immediate |-> FALSE, undone |-> <<>>, later |-> <<>>]
                    /\ panicked' = o.panic
    /\ UNCHANGED <<well_nested, minted, applies>>

\* revert of the newest MillCards Result
GraveyardRevert ==
    /\ ~panicked
    /\ results # <<>>
    /\ LET e == results[Len(results)]
       IN  /\ game_state' = RevertMillCards(e.result.result.cards, game_state)
           /\ results' = pop(results)
           /\ last' = [op |-> "revert", action |-> e.action, result |-> e.result,
                       pre |-> e.pre, before |-> game_state,
                       immediate |-> (last.op = "apply"),
                       undone |-> IF last.op = "revert"
                                  THEN Append(last.undone, e.action.kind)
                                  ELSE <<e.action.kind>>,
                       later |-> <<>>]
    /\ UNCHANGED <<well_nested, minted, applies, panicked>>

GraveyardNext == GraveyardMill \/ GraveyardRevert

GraveyardSpec == GraveyardInit /\ [][GraveyardNext]_vars

(***************************************************************************)
(* What the properties below read.                                         *)
(***************************************************************************)
RECURSIVE SumCounts(_, _)
\* the sum of the per-card counts over the cards of S
SumCounts(cards, S) ==
    IF S = {}
    THEN 0
    ELSE LET c == CHOOSE x \in S : TRUE
         IN  cards[c] + SumCounts(cards, S \ {c})

LibraryConsistent(library) == library.size = SumCounts(library.cards, Card)

IsLandCard(c) == c \in Land
IsSpellCard(c) == c \in Spell

Occurrences(v, e) == Cardinality({i \in 1..Len(v) : v[i] = e})

Min(a, b) == IF a <= b THEN a ELSE b

\* the step just taken applied, or reverted, the primitive action of this kind
AppliedPrimitive(kind) ==
    /\ last.op = "apply"
    /\ last.action.kind = "Primitive"
    /\ last.action.action.kind = kind

\* the step just taken reverted a Result right after the apply that returned it
RevertedAtOnce == last.op = "revert" /\ last.immediate

RevertedPrimitiveAtOnce(kind) ==
    /\ RevertedAtOnce
    /\ last.action.kind = "Primitive"
    /\ last.action.action.kind = kind

\* the active player's cards, counting the library by its size / by its counts
ZoneCards(player) ==
    Len(player.hand.lands) + Len(player.hand.spells)
        + Cardinality(DOMAIN player.battlefield.lands)
        + Cardinality(DOMAIN player.battlefield.non_lands)
        + Len(player.graveyard.lands) + Len(player.graveyard.spells)

TotalBySize(gs) == gs.active_player.library.size + ZoneCards(gs.active_player)

TotalByCounts(gs) ==
    SumCounts(gs.active_player.library.cards, Card) + ZoneCards(gs.active_player)

TopIs(stack, kind) ==
    /\ stack.objects # <<>>
    /\ stack.objects[Len(stack.objects)].kind = kind

(***************************************************************************)
(* C1.  Round trip: applying any action and at once reverting its Result   *)
(* gives back the GameState, in every component: library counts and size,  *)
(* hand, battlefield, graveyard, the non-active player, the stack, the     *)
(* priority flag and the next-id counter.                                  *)
(***************************************************************************)
RoundTrip ==
    RevertedAtOnce =>
        /\ game_state.active_player.library = last.pre.active_player.library
        /\ game_state.active_player.hand = last.pre.active_player.hand
        /\ game_state.active_player.battlefield = last.pre.active_player.battlefield
        /\ game_state.active_player.graveyard = last.pre.active_player.graveyard
        /\ game_state.non_active_player = last.pre.non_active_player
        /\ game_state.stack = last.pre.stack
        /\ game_state.priority = last.pre.priority
        /\ game_state.next_id = last.pre.next_id

(***************************************************************************)
(* C2.  DrawCards round trip: on a library whose size is the sum of its    *)
(* counts, DrawCards(n) moves exactly min(n, size) cards from the library  *)
(* to the hand, lands appended to hand.lands and spells to hand.spells,    *)
(* and reverting the Result at once restores every library count, the      *)
(* size and both hand sequences.                                           *)
(***************************************************************************)
DrawCardsRoundTrip ==
    LET pre == last.pre.active_player
        now == game_state.active_player
        drawn == last.result.result.cards
    IN  /\ (AppliedPrimitive("DrawCards") /\ LibraryConsistent(pre.library) /\ ~panicked) =>
              /\ Len(drawn) = Min(last.action.action.count, pre.library.size)
              /\ now.library.size = pre.library.size - Len(drawn)
              /\ \A c \in Card :
                    now.library.cards[c] = pre.library.cards[c] - Occurrences(drawn, c)
              /\ now.hand.lands = pre.hand.lands \o SelectSeq(drawn, IsLandCard)
              /\ now.hand.spells = pre.hand.spells \o SelectSeq(drawn, IsSpellCard)
        /\ (RevertedPrimitiveAtOnce("DrawCards") /\ LibraryConsistent(pre.library)) =>
              /\ now.library = pre.library
              /\ now.hand = pre.hand

\* a DrawCards that drew a land and a spell into a hand that held cards was reverted
DrawCardsRoundTripWitness ==
    /\ RevertedPrimitiveAtOnce("DrawCards")
    /\ LibraryConsistent(last.pre.active_player.library)
    /\ SelectSeq(last.result.result.cards, IsLandCard) # <<>>
    /\ SelectSeq(last.result.result.cards, IsSpellCard) # <<>>
    /\ last.pre.active_player.hand.lands # <<>>
    /\ game_state.active_player.hand = last.pre.active_player.hand

(***************************************************************************)
(* C3.  Library conservation: from Library::new, after any sequence of     *)
(* draw_random_card and add_card calls, size is the sum of the counts.     *)
(***************************************************************************)
LibraryConservation == LibraryConsistent(game_state.active_player.library)

\* cards were drawn and added, and the library is not empty
LibraryConservationWitness ==
    /\ last.drew
    /\ last.added
    /\ last.op = "draw_random_card"
    /\ last.card # None
    /\ game_state.active_player.library.size >= 2

(***************************************************************************)
(* C4.  Card conservation: the number of the active player's cards over    *)
(* library (by size, and by the sum of counts), hand, battlefield and      *)
(* graveyard is the same after an apply and the revert of its Result as    *)
(* before the apply.                                                       *)
(***************************************************************************)
CardConservation ==
    RevertedAtOnce =>
        /\ TotalBySize(game_state) = TotalBySize(last.pre)
        /\ TotalByCounts(game_state) = TotalByCounts(last.pre)

(***************************************************************************)
(* C5.  Identity uniqueness: every GameObjectId minted differs from every  *)
(* id minted before it, also from those whose objects a revert removed; no *)
(* id is a key of both battlefield mappings, and every id on the           *)
(* battlefield is below the next-id counter.                               *)
(***************************************************************************)
IdentityUniqueness ==
    LET battlefield == game_state.active_player.battlefield
    IN  /\ \A i, j \in 1..Len(minted) : i # j => minted[i] # minted[j]
        /\ DOMAIN battlefield.lands \cap DOMAIN battlefield.non_lands = {}
        /\ \A id \in DOMAIN battlefield.lands \cup DOMAIN battlefield.non_lands :
              id < game_state.next_id

\* a land was played, the PlayLand reverted, and a land played again
IdentityUniquenessWitness ==
    /\ AppliedPrimitive("PlayLand")
    /\ applies = 2
    /\ Len(results) = 1
    /\ Len(minted) = 2
    /\ DOMAIN game_state.active_player.battlefield.lands = {minted[2]}

(***************************************************************************)
(* C6.  Stack discipline: while Results are reverted newest first, the     *)
(* revert of a Result leaves the stack exactly as it was before that       *)
(* Result's apply; so CastSpell, then ActivateAbility, then both reverted  *)
(* in reverse order, ends with the stack it began with.                    *)
(***************************************************************************)
StackDiscipline ==
    (last.op = "revert" /\ well_nested) => game_state.stack = last.pre.stack

\* CastSpell then ActivateAbility on an empty stack, reverted in reverse order
StackDisciplineWitness ==
    /\ last.op = "revert"
    /\ well_nested
    /\ last.undone = <<"ActivateAbility", "CastSpell">>
    /\ last.before.stack.objects # <<>>
    /\ game_state.stack.objects = <<>>

(***************************************************************************)
(* C7.  A mis-nested stack revert is a fatal fault: reverting a CastSpell  *)
(* Result when the top of the stack is no Spell, or an ActivateAbility     *)
(* Result when it is no ActivatedAbility, or either on an empty stack,     *)
(* ends in a fatal error; it is neither ignored nor a pop of another       *)
(* object.                                                                 *)
(***************************************************************************)
MisNestedRevertIsFatal ==
    LET mis_nested ==
            \/ last.action.kind = "CastSpell" /\ ~TopIs(last.before.stack, "Spell")
            \/ last.action.kind = "ActivateAbility"
                   /\ ~TopIs(last.before.stack, "ActivatedAbility")
    IN  (last.op = "revert" /\ mis_nested) => panicked

(***************************************************************************)
(* C8.  MillCards revert is exact: reverting a MillCards Result at once    *)
(* restores graveyard.lands and graveyard.spells, elements and order, and  *)
(* the library counts and size, whatever the graveyard held.               *)
(***************************************************************************)
MillCardsRevertExact ==
    RevertedPrimitiveAtOnce("MillCards") =>
        /\ game_state.active_player.graveyard = last.pre.active_player.graveyard
        /\ game_state.active_player.library = last.pre.active_player.library

(***************************************************************************)
(* C9.  SearchLibraryToHand revert is exact: for a list of cards each      *)
(* present in the library, apply takes one copy of each from the library,  *)
(* appends it to its hand sequence and returns the list; reverting at once *)
(* restores hand.lands, hand.spells, the library counts and the size.      *)
(***************************************************************************)
SearchLibraryToHandRevertExact ==
    LET pre == last.pre.active_player
        now == game_state.active_player
        cards == last.action.action.cards
        present == \A c \in Card : Occurrences(cards, c) <= pre.library.cards[c]
    IN  /\ (AppliedPrimitive("SearchLibraryToHand") /\ present) =>
              /\ last.result.result.cards = cards
              /\ \A c \in Card :
                    now.library.cards[c] = pre.library.cards[c] - Occurrences(cards, c)
              /\ now.hand.lands = pre.hand.lands \o SelectSeq(cards, IsLandCard)
              /\ now.hand.spells = pre.hand.spells \o SelectSeq(cards, IsSpellCard)
        /\ (RevertedPrimitiveAtOnce("SearchLibraryToHand") /\ present) =>
              /\ now.hand = pre.hand
              /\ now.library = pre.library

(***************************************************************************)
(* C10.  SearchLibraryToBattlefield: apply returns one fresh id for each   *)
(* requested land or permanent spell, in request order, and none for a     *)
(* non-permanent spell; after the revert of the Result both battlefield    *)
(* mappings and the library counts and size are as before the apply, for   *)
(* every request list; stated here for the lists whose cards are all in    *)
(* the library, non-permanent spells among them.                           *)
(***************************************************************************)
SearchLibraryToBattlefieldRoundTrip ==
    LET pre == last.pre.active_player
        now == game_state.active_player
        game_objects == last.action.action.game_objects
        entering == SelectSeq(game_objects, LAMBDA g : g.permanent \notin NonPermanent)
        object_ids == last.result.result.object_ids
        requested == [i \in 1..Len(game_objects) |-> game_objects[i].permanent]
        present == \A c \in Card : Occurrences(requested, c) <= pre.library.cards[c]
    IN  /\ AppliedPrimitive("SearchLibraryToBattlefield") =>
              /\ Len(object_ids) = Len(entering)
              /\ \A i \in 1..Len(object_ids) :
                    /\ object_ids[i] = last.pre.next_id + i - 1
                    /\ LET map == IF entering[i].permanent \in Land
                                  THEN now.battlefield.lands
                                  ELSE now.battlefield.non_lands
                       IN  /\ object_ids[i] \in DOMAIN map
                           /\ map[object_ids[i]] = entering[i]
        /\ (RevertedPrimitiveAtOnce("SearchLibraryToBattlefield") /\ present) =>
              /\ now.battlefield = pre.battlefield
              /\ now.library = pre.library

(***************************************************************************)
(* C11.  Library exhaustion is not a fault: in every reachable state,      *)
(* draw_random_card on a library of size 0 returns no card and leaves the  *)
(* library unchanged, and the program has never panicked; every applied    *)
(* DrawCards(n) or MillCards(n) on a library of size k returned exactly    *)
(* min(n, k) cards and left the GameState unchanged when k = 0; and in     *)
(* every initial GameState, every outcome of DrawCards(n) and              *)
(* MillCards(n) is of that kind and without panic.                         *)
(***************************************************************************)
LibraryExhaustionIsNotAFault ==
    LET library == game_state.active_player.library
    IN  /\ ~panicked
        /\ library.size = 0 =>
              draw_random_card(library) =
                  {[library |-> library, card |-> None, panic |-> FALSE]}
        /\ (AppliedPrimitive("DrawCards") \/ AppliedPrimitive("MillCards")) =>
              /\ Len(last.result.result.cards) =
                    Min(last.action.action.count, last.pre.active_player.library.size)
              /\ last.pre.active_player.library.size = 0 => game_state = last.pre
        /\ last.op = "init" =>
              \A n \in Counts :
                 \A o \in ApplyDrawCards(n, game_state) \cup ApplyMillCards(n, game_state) :
                    /\ ~o.panic
                    /\ Len(o.result.cards) = Min(n, library.size)
                    /\ library.size = 0 => o.game_state = game_state

\* DrawCards(n) was applied, n > 0, to an emptied library, after an earlier apply
LibraryExhaustionIsNotAFaultWitness ==
    /\ AppliedPrimitive("DrawCards")
    /\ last.action.action.count > 0
    /\ last.pre.active_player.library.size = 0
    /\ last.result.result.cards = <<>>
    /\ game_state = last.pre
    /\ applies = 2
    /\ ~panicked

(***************************************************************************)
(* C12.  The id counter is never rolled back: no apply and no revert       *)
(* lowers next_id; applying PlayLand and at once reverting its Result      *)
(* takes the land off battlefield.lands and leaves next_id exactly one     *)
(* above its value before the apply; a SearchLibraryToBattlefield that     *)
(* minted k ids leaves it k above after the revert.                        *)
(***************************************************************************)
IdCounterNeverRolledBack ==
    /\ last.op \in {"apply", "revert"} => game_state.next_id >= last.before.next_id
    /\ RevertedPrimitiveAtOnce("PlayLand") =>
          /\ last.result.result.id \notin DOMAIN game_state.active_player.battlefield.lands
          /\ game_state.next_id = last.pre.next_id + 1
    /\ RevertedPrimitiveAtOnce("SearchLibraryToBattlefield") =>
          game_state.next_id = last.pre.next_id + Len(last.result.result.object_ids)

\* a SearchLibraryToBattlefield that minted two ids was reverted at once
IdCounterNeverRolledBackWitness ==
    /\ RevertedPrimitiveAtOnce("SearchLibraryToBattlefield")
    /\ Len(last.result.result.object_ids) = 2
    /\ game_state.next_id = last.pre.next_id + 2
    /\ game_state.active_player.battlefield = last.pre.active_player.battlefield

(***************************************************************************)
(* C13.  Sequence is equivalent to its parts: every applied               *)
(* Sequence([p1..pn]) gave a GameState and per-step Results that applying  *)
(* Primitive(p1), ..., Primitive(pn) one after another gives, and every    *)
(* reverted Sequence Result gave the GameState that reverting the single   *)
(* Results in the order n, ..., 1 gives; on every initial GameState the    *)
(* outcomes of the two ways are the same set, for every sequence of the    *)
(* input set.                                                              *)
(***************************************************************************)
RECURSIVE OneAfterAnother(_, _, _, _)
\* Primitive(actions[i]), ..., Primitive(actions[n]) applied in that order
OneAfterAnother(gs, actions, i, rs) ==
    IF i > Len(actions)
    THEN {[game_state |-> gs, results |-> rs]}
    ELSE UNION {OneAfterAnother(o.game_state, actions, i + 1,
                                Append(rs, o.result.result))
                : o \in GameAction_apply(Primitive(actions[i]), gs)}

RECURSIVE RevertOneByOne(_, _, _)
\* the Results rs[i], ..., rs[1] reverted in that order, each as a Primitive Result
RevertOneByOne(gs, rs, i) ==
    IF i = 0
    THEN gs
    ELSE RevertOneByOne(
             GameActionResult_revert([kind |-> "Primitive", result |-> rs[i]], gs),
             rs, i - 1)

\* the sequences of the driver, and one whose reverts do not commute
SequenceInputs ==
    SequenceLists \cup
        {<<[kind |-> "DrawCards", count |-> 1],
           [kind |-> "SearchLibraryToHand", cards |-> <<"Vesuva">>]>>}

SequenceEquivalentToParts ==
    /\ (last.op = "apply" /\ last.action.kind = "Sequence") =>
          [game_state |-> game_state, results |-> last.result.results]
              \in OneAfterAnother(last.pre, last.action.actions, 1, <<>>)
    /\ (last.op = "revert" /\ last.action.kind = "Sequence") =>
          game_state = RevertOneByOne(last.before, last.result.results,
                                      Len(last.result.results))
    /\ last.op = "init" =>
          \A actions \in SequenceInputs :
             LET outcomes == GameAction_apply([kind |-> "Sequence", actions |-> actions],
                                              game_state)
             IN  /\ {[game_state |-> o.game_state, results |-> o.result.results]
                         : o \in outcomes}
                       = OneAfterAnother(game_state, actions, 1, <<>>)
                 /\ \A o \in outcomes :
                       /\ ~o.panic
                       /\ Len(o.result.results) = Len(actions)
                       /\ GameActionResult_revert(o.result, o.game_state)
                             = RevertOneByOne(o.game_state, o.result.results,
                                              Len(o.result.results))

\* a Sequence of three steps was applied and reverted, and the revert did something
SequenceEquivalentToPartsWitness ==
    /\ RevertedAtOnce
    /\ last.action.kind = "Sequence"
    /\ Len(last.result.results) = 3
    /\ game_state # last.before
    /\ game_state = RevertOneByOne(last.before, last.result.results, 3)

(***************************************************************************)
(* C14.  PassPriority is self-inverse: in every reachable state, apply     *)
(* flips the priority flag between Active and NonActive and changes        *)
(* nothing else, applying it twice gives the state back, and revert has    *)
(* the same effect on the state as apply; every applied PassPriority       *)
(* flipped the flag, and every PassPriority Result reverted at once        *)
(* returned the flag to its value before the apply.                        *)
(***************************************************************************)
PassPrioritySelfInverse ==
    /\ game_state.priority \in PlayerId
    /\ \A o \in ApplyPassPriority(game_state) :
          /\ ~o.panic
          /\ o.game_state = [game_state EXCEPT !.priority = other_player(@)]
          /\ o.game_state.priority # game_state.priority
          /\ \A o2 \in ApplyPassPriority(o.game_state) : o2.game_state = game_state
          /\ RevertPassPriority(o.game_state) = game_state
          /\ RevertPassPriority(game_state) = o.game_state
    /\ (last.op = "apply" /\ last.action.kind = "PassPriority") =>
          game_state.priority # last.pre.priority
    /\ (RevertedAtOnce /\ last.action.kind = "PassPriority") =>
          /\ game_state.priority = last.pre.priority
          /\ game_state.priority # last.before.priority

\* PassPriority was applied with the flag at NonActive and at once reverted
PassPrioritySelfInverseWitness ==
    /\ RevertedAtOnce
    /\ last.action.kind = "PassPriority"
    /\ last.pre.priority = "NonActive"
    /\ last.before.priority = "Active"
    /\ game_state = last.pre

(***************************************************************************)
(* C15.  IncreaseLandPlays: apply adds n to land_plays; in every history   *)
(* whose Results are reverted newest first, land_plays is at least n when  *)
(* an IncreaseLandPlays(n) Result is reverted, the revert subtracts        *)
(* exactly n, and after the revert of any Result land_plays has its value  *)
(* from before that Result's apply.                                        *)
(***************************************************************************)
IncreaseLandPlaysRoundTrip ==
    LET land_plays(gs) == gs.active_player.battlefield.land_plays
        n == last.action.action.amount
    IN  /\ AppliedPrimitive("IncreaseLandPlays") =>
              land_plays(game_state) = land_plays(last.pre) + n
        /\ (well_nested /\ last.op = "revert") =>
              land_plays(game_state) = land_plays(last.pre)
        /\ (well_nested /\ last.op = "revert" /\ last.action.kind = "Primitive"
                /\ last.action.action.kind = "IncreaseLandPlays") =>
              /\ land_plays(last.before) >= n
              /\ land_plays(game_state) = land_plays(last.before) - n

\* IncreaseLandPlays(2) from no land plays, another action on top, both reverted
IncreaseLandPlaysRoundTripWitness ==
    /\ well_nested
    /\ last.op = "revert"
    /\ last.action.kind = "Primitive"
    /\ last.action.action.kind = "IncreaseLandPlays"
    /\ last.action.action.amount = 2
    /\ Len(last.undone) = 2
    /\ last.pre.active_player.battlefield.land_plays = 0
    /\ last.before.active_player.battlefield.land_plays = 2
    /\ game_state.active_player.battlefield.land_plays = 0

(***************************************************************************)
(* C16.  Delirium monotonicity (GraveyardSpec): for every graveyard        *)
(* reached, appending any card never turns has_delirium from true to       *)
(* false; no MillCards apply turned it from true to false; a step that     *)
(* turned it from true to false was a revert, which removes cards.         *)
(***************************************************************************)
DeliriumMonotone ==
    LET graveyard(gs) == gs.active_player.graveyard
    IN  /\ has_delirium(graveyard(game_state)) =>
              \A card \in Card :
                 has_delirium(graveyard(push_graveyard(game_state, card)))
        /\ (last.op = "apply" /\ has_delirium(graveyard(last.before))) =>
              has_delirium(graveyard(game_state))
        /\ (has_delirium(graveyard(last.before))
                /\ ~has_delirium(graveyard(game_state))) =>
              /\ last.op = "revert"
              /\ Len(Graveyard_iter(graveyard(game_state)))
                    < Len(Graveyard_iter(graveyard(last.before)))

\* a MillCards apply kept a delirium that was there before it
DeliriumMonotoneWitness ==
    /\ last.op = "apply"
    /\ last.result.result.cards # <<>>
    /\ has_delirium(last.before.active_player.graveyard)
    /\ has_delirium(game_state.active_player.graveyard)
    /\ Len(Graveyard_iter(game_state.active_player.graveyard))
          > Len(Graveyard_iter(last.before.active_player.graveyard))

(***************************************************************************)
(* C17.  Delirium definition (GraveyardSpec): for every graveyard          *)
(* reached, has_delirium is true exactly when at least 4 of the 6 type     *)
(* bits are set in card_type of some graveyard card; it is false for the   *)
(* empty graveyard; Urza's Saga in the graveyard sets both the Land and    *)
(* the Enchantment bit of the union.                                       *)
(***************************************************************************)
HasBit(bits, b) == (bits \div b) % 2 = 1

DeliriumDefinition ==
    LET graveyard == game_state.active_player.graveyard
        cards == Graveyard_iter(graveyard)
        present == {b \in CardTypeBits :
                       \E i \in 1..Len(cards) : HasBit(card_type(cards[i]), b)}
        union == fold_card_type(cards, 1, CardType_empty)
    IN  /\ has_delirium(graveyard) <=> Cardinality(present) >= 4
        /\ cards = <<>> => ~has_delirium(graveyard)
        /\ ~has_delirium([spells |-> <<>>, lands |-> <<>>])
        /\ (\E i \in 1..Len(graveyard.lands) : graveyard.lands[i] = "UrzasSaga") =>
              /\ HasBit(union, CardType_LAND)
              /\ HasBit(union, CardType_ENCHANTMENT)

\* three cards give delirium: Urza's Saga brings two of the four bits
DeliriumDefinitionWitness ==
    /\ game_state.active_player.graveyard.lands = <<"UrzasSaga">>
    /\ Len(game_state.active_player.graveyard.spells) = 2
    /\ has_delirium(game_state.active_player.graveyard)

(***************************************************************************)
(* C18.  card_type is total over the closed card set: every card, and      *)
(* every card of the graveyard reached, has exactly one type bit, except   *)
(* the land Urza's Saga, which has exactly the two bits Land and           *)
(* Enchantment; every other land has only Land.                            *)
(***************************************************************************)
CardTypeTotal ==
    LET cards == Graveyard_iter(game_state.active_player.graveyard)
    IN  /\ \A i \in 1..Len(cards) :
              count_ones(card_type(cards[i])) = IF cards[i] = "UrzasSaga" THEN 2 ELSE 1
        /\ \A card \in Card :
              /\ card_type(card) \in 1..63
              /\ card = "UrzasSaga" =>
                    /\ card_type(card) = CardType_LAND + CardType_ENCHANTMENT
                    /\ count_ones(card_type(card)) = 2
              /\ card \in Land \ {"UrzasSaga"} => card_type(card) = CardType_LAND
              /\ card # "UrzasSaga" =>
                    /\ count_ones(card_type(card)) = 1
                    /\ card_type(card) \in CardTypeBits

\* Urza's Saga was milled, beside a land with the Land bit only
CardTypeTotalWitness ==
    /\ last.op = "apply"
    /\ game_state.active_player.graveyard.lands = <<"Vesuva", "UrzasSaga">>
    /\ card_type("UrzasSaga") # card_type("Vesuva")
    /\ count_ones(fold_card_type(game_state.active_player.graveyard.lands, 1,
                                 CardType_empty)) = 2

(***************************************************************************)
(* C19.  Library data-model invariant under the whole engine: in every     *)
(* state reached by applies and reverts from a GameState whose library     *)
(* has size equal to the sum of its per-card counts, the library's size    *)
(* equals the sum of its counts and no count is negative.                  *)
(***************************************************************************)
LibraryInvariantUnderEngine ==
    /\ LibraryConsistent(game_state.active_player.library)
    /\ \A card \in Card : game_state.active_player.library.cards[card] >= 0

(***************************************************************************)
(* C20.  Battlefield partition: in every state reached by applies and      *)
(* reverts from a state whose battlefield.lands and battlefield.non_lands  *)
(* have disjoint key sets, no GameObjectId is a key of both.               *)
(***************************************************************************)
BattlefieldPartition ==
    DOMAIN game_state.active_player.battlefield.lands
        \cap DOMAIN game_state.active_player.battlefield.non_lands = {}

\* one SearchLibraryToBattlefield put a land and a non-land on a battlefield
\* that already held one of each
BattlefieldPartitionWitness ==
    /\ AppliedPrimitive("SearchLibraryToBattlefield")
    /\ Len(last.result.result.object_ids) = 2
    /\ last.result.result.object_ids[1]
          \in DOMAIN game_state.active_player.battlefield.lands
    /\ last.result.result.object_ids[2]
          \in DOMAIN game_state.active_player.battlefield.non_lands
    /\ Cardinality(DOMAIN game_state.active_player.battlefield.lands) = 2
    /\ Cardinality(DOMAIN game_state.active_player.battlefield.non_lands) = 2

(***************************************************************************)
(* C21.  Draw without replacement (LibrarySpec): in every library reached  *)
(* with size > 0, every outcome of draw_random_card is a card whose count  *)
(* was at least 1, with exactly that count and the size lowered by 1 and   *)
(* every other count unchanged; every card with a positive count is the    *)
(* card of some outcome, and no card with count 0 is.                      *)
(***************************************************************************)
DrawWithoutReplacement ==
    LET library == game_state.active_player.library
        outcomes == draw_random_card(library)
    IN  library.size > 0 =>
           /\ \A o \in outcomes :
                 /\ ~o.panic
                 /\ o.card \in Card
                 /\ library.cards[o.card] >= 1
                 /\ o.library.cards[o.card] = library.cards[o.card] - 1
                 /\ o.library.size = library.size - 1
                 /\ \A c \in Card \ {o.card} : o.library.cards[c] = library.cards[c]
           /\ {o.card : o \in outcomes} = {c \in Card : library.cards[c] >= 1}

\* the one Summoner's Pact was drawn from a library that also held two Forests
DrawWithoutReplacementWitness ==
    /\ last.op = "draw_random_card"
    /\ last.card = "SummonersPact"
    /\ ~last.added
    /\ game_state.active_player.library.cards["SummonersPact"] = 0
    /\ game_state.active_player.library.cards["Forest"] = 2
    /\ game_state.active_player.library.size = 2

ActionKind(a) == IF a.kind = "Primitive" THEN a.action.kind ELSE a.kind

\* what a step from GameState b to GameState g by an action of this kind may change
FrameHolds(kind, b, g) ==
    /\ g.non_active_player = b.non_active_player
    /\ g.active_player.life_total = b.active_player.life_total
    /\ g.active_player.mana_pool = b.active_player.mana_pool
    /\ kind = "PassPriority" => g = [b EXCEPT !.priority = g.priority]
    /\ kind \in {"CastSpell", "ActivateAbility", "Trigger"} =>
          g = [b EXCEPT !.stack = g.stack]
    /\ kind \in {"DrawCards", "MillCards", "IncreaseLandPlays", "SearchLibraryToHand"} =>
          /\ g.stack = b.stack
          /\ g.priority = b.priority
          /\ g.next_id = b.next_id

\* Some(Player): an opponent with cards in every zone
Opponent ==
    [MidGameState(<<"Vesuva", "Explore">>).active_player EXCEPT !.life_total = 17]

\* every action the driver applies
FrameActions ==
    {[kind |-> "PassPriority"], [kind |-> "CastSpell", spell |-> "AmuletOfVigor"]}
        \cup {[kind |-> "ActivateAbility", source |-> 0, target |-> t] : t \in Targets}
        \cup {Primitive([kind |-> "DrawCards", count |-> n]) : n \in Counts}
        \cup {Primitive([kind |-> "MillCards", count |-> n]) : n \in Counts}
        \cup {Primitive([kind |-> "PlayLand", land |-> l.land, tap_state |-> l.tap_state])
                 : l \in PlayableLands}
        \cup {Primitive([kind |-> "IncreaseLandPlays", amount |-> n]) : n \in Counts}
        \cup {Primitive([kind |-> "SearchLibraryToHand", cards |-> cs]) : cs \in CardLists}
        \cup {Primitive([kind |-> "SearchLibraryToBattlefield", game_objects |-> os])
                 : os \in GameObjectLists}
        \cup {Primitive([kind |-> "Trigger", trigger |-> t]) : t \in Triggers}
        \cup {[kind |-> "Sequence", actions |-> as] : as \in SequenceLists}

Frame ==
    /\ last.op \in {"apply", "revert"} =>
          FrameHolds(ActionKind(last.action), last.before, game_state)
    /\ last.op = "init" =>
          LET gs == [game_state EXCEPT !.non_active_player = Opponent]
          IN  \A a \in FrameActions :
                 \A o \in GameAction_apply(a, gs) :
                    /\ FrameHolds(ActionKind(a), gs, o.game_state)
                    /\ FrameHolds(ActionKind(a), o.game_state,
                                  GameActionResult_revert(o.result, o.game_state))

\* a Trigger Result was reverted: the stack changed and nothing else did
FrameWitness ==
    /\ last.op = "revert"
    /\ ActionKind(last.action) = "Trigger"
    /\ game_state.stack # last.before.stack
    /\ game_state = [last.before EXCEPT !.stack = game_state.stack]
    /\ game_state.active_player.life_total = 20

(***************************************************************************)
(* C24.  PlayLand is unconditional: in every reachable state (for a        *)
(* Forest; for every land in the initial states), with land_plays at 0 or  *)
(* not and the land in hand or not, PlayLand(land, tapState) has exactly   *)
(* one outcome, without panic, that differs from                           *)
(* the state before only in one new entry of battlefield.lands, under the  *)
(* id next_id held, with the given land and tap state, and in next_id,     *)
(* one higher; land_plays, hand, library and graveyard are unchanged.      *)
(***************************************************************************)
PlayLandEffect(land, tap_state, b, o) ==
    LET id == o.result.id
    IN  /\ ~o.panic
        /\ o.result.kind = "PlayLand"
        /\ id = b.next_id
        /\ id \notin DOMAIN b.active_player.battlefield.lands
        /\ o.game_state =
              [b EXCEPT !.next_id = @ + 1,
                        !.active_player.battlefield.lands =
                            [k \in DOMAIN @ \cup {id} |->
                                IF k = id
                                THEN [permanent |-> land, tap_state |-> tap_state]
                                ELSE @[k]]]
        /\ o.game_state.active_player.battlefield.land_plays
              = b.active_player.battlefield.land_plays
        /\ o.game_state.active_player.hand = b.active_player.hand
        /\ o.game_state.active_player.library = b.active_player.library
        /\ o.game_state.active_player.graveyard = b.active_player.graveyard

PlayLandUnconditional ==
    /\ \A land \in IF last.op = "init" THEN Land ELSE {"Forest"} :
          \A tap_state \in TapState :
             LET outcomes == PrimitiveGameAction_apply(
                                 [kind |-> "PlayLand", land |-> land,
                                  tap_state |-> tap_state], game_state)
             IN  /\ Cardinality(outcomes) = 1
                 /\ \A o \in outcomes : PlayLandEffect(land, tap_state, game_state, o)
    /\ AppliedPrimitive("PlayLand") =>
          PlayLandEffect(last.action.action.land, last.action.action.tap_state,
                         last.pre,
                         [game_state |-> game_state, result |-> last.result.result,
                          panic |-> panicked])

\* a land that is not in the hand was played with no land play left
PlayLandUnconditionalWitness ==
    /\ AppliedPrimitive("PlayLand")
    /\ last.pre.active_player.battlefield.land_plays = 0
    /\ position(last.pre.active_player.hand.lands, last.action.action.land) = 0
    /\ last.result.result.id \in DOMAIN game_state.active_player.battlefield.lands
    /\ game_state.active_player.battlefield.land_plays = 0
    /\ game_state.next_id = last.pre.next_id + 1

(***************************************************************************)
(* C25.  Reverting a Trigger Result removes the top object of the stack    *)
(* whatever its kind, and nothing on an empty stack; it gives back the     *)
(* stack from before the Trigger apply when the Results are reverted       *)
(* newest first; whenever it gives that stack back, the stack before the   *)
(* revert was that stack with one object on top, every other push made     *)
(* since the apply being off the stack again.                              *)
(***************************************************************************)
\* the action pushes a stack object
PushesOnStack(a) ==
    \/ a.kind \in {"CastSpell", "ActivateAbility"}
    \/ a.kind = "Primitive" /\ a.action.kind = "Trigger"
    \/ a.kind = "Sequence" /\ \E i \in 1..Len(a.actions) : a.actions[i].kind = "Trigger"

====
